---- MODULE Spec2Model ----
(***************************************************************************)
(* The POST /extract handler of src/mini.js: one request, from the upload  *)
(* to the response and the cleanup of its transient files.  The page       *)
(* renderer (pdf2pic), the vision model (Ollama over axios) and the file   *)
(* system are the environment; their outcomes are nondeterministic.        *)
(***************************************************************************)
EXTENDS Integers, Sequences, FiniteSets, TLC

(***************************************************************************)
(* Bounds of the model.                                                    *)
(***************************************************************************)
\* the renderer yields at most MaxPages pages (the code's own limit is 9999)
MaxPages == 13

\* const BATCH_SIZE = 6
BATCH_SIZE == 6

(***************************************************************************)
(* JavaScript values, tagged by their type.                                *)
(***************************************************************************)
Undefined == [t |-> "undefined"]
Null == [t |-> "null"]
Str(s) == [t |-> "string", v |-> s]
Num(n) == [t |-> "number", v |-> n]
Arr(s) == [t |-> "array", v |-> s]
Obj(r) == [t |-> "object", v |-> r]

\* the keys of the merge loop, in its order
ScalarKeys == <<"documentType", "invoiceNumber", "date", "vendor", "buyer", "total", "currency">>

ScalarKeySet == {ScalarKeys[i] : i \in 1..Len(ScalarKeys)}

TopKeys == ScalarKeySet \cup {"lineItems", "meta"}

LineItemKeys == {"description", "quantity", "unitPrice", "amount"}

\* x == null in JavaScript: true of null and of undefined
LooseNull(x) == x.t \in {"null", "undefined"}

(***************************************************************************)
(* The zod schema.  An absent key of an object is a key holding Undefined. *)
(***************************************************************************)
\* z.string()
ZodString(x) == x.t = "string"

\* z.number()
ZodNumber(x) == x.t = "number"

\* .optional(): undefined passes, anything else (null included) goes to the inner type
ZodOptional(x, inner) == x.t = "undefined" \/ inner

\* the element type of lineItems
LineItemSchema(x) ==
    /\ x.t = "object"
    /\ \A k \in LineItemKeys : ZodOptional(x.v[k], ZodString(x.v[k]))

\* the type of meta
MetaSchema(x) ==
    /\ x.t = "object"
    /\ ZodOptional(x.v.pagesProcessed, ZodNumber(x.v.pagesProcessed))

\* the declared type of key k, before its .optional()
FieldType(k, x) ==
    CASE k \in ScalarKeySet -> ZodString(x)
      [] k = "lineItems" -> x.t = "array" /\ \A i \in 1..Len(x.v) : LineItemSchema(x.v[i])
      [] k = "meta" -> MetaSchema(x)

\* which keys of ExtractedDataSchema are declared .optional(): all of them
ExtractedDataSchema == [k \in TopKeys |-> TRUE]

\* schema.partial(): every key optional
Partial(schema) == [k \in DOMAIN schema |-> TRUE]

\* schema.parse(x): ok and the parsed value, or a ZodError
ZodParse(schema, x) ==
    IF /\ x.t = "object"
       /\ \A k \in DOMAIN schema :
            IF schema[k] THEN ZodOptional(x.v[k], FieldType(k, x.v[k])) ELSE FieldType(k, x.v[k])
    THEN [ok |-> TRUE, value |-> x.v]
    ELSE [ok |-> FALSE]

(***************************************************************************)
(* Response texts: sequences of tokens.  Members(o) stands for the member  *)
(* list of an object literal whose value is o; "txt" is stray prose; "ws"  *)
(* is white space; Literal(x) is a JSON literal that is no object.         *)
(***************************************************************************)
T(s) == [tok |-> s]
Members(o) == [tok |-> "members", obj |-> o]
Literal(x) == [tok |-> "literal", val |-> x]

EmptyObject == [k \in TopKeys |-> Undefined]

\* String.prototype.trim
RECURSIVE Trim(_)
Trim(s) ==
    IF s = <<>> THEN s
    ELSE IF Head(s) = T("ws") THEN Trim(Tail(s))
    ELSE IF s[Len(s)] = T("ws") THEN Trim(SubSeq(s, 1, Len(s) - 1))
    ELSE s

\* String.prototype.indexOf, 0-based, -1 when absent
IndexOf(s, tok) ==
    IF \E i \in 1..Len(s) : s[i] = tok
    THEN (CHOOSE i \in 1..Len(s) : s[i] = tok /\ \A j \in 1..(i - 1) : s[j] # tok) - 1
    ELSE -1

\* String.prototype.lastIndexOf
LastIndexOf(s, tok) ==
    IF \E i \in 1..Len(s) : s[i] = tok
    THEN (CHOOSE i \in 1..Len(s) : s[i] = tok /\ \A j \in (i + 1)..Len(s) : s[j] # tok) - 1
    ELSE -1

\* String.prototype.slice(start, end) and Array.prototype.slice, for 0 <= start
Slice(s, start, end) ==
    SubSeq(s, start + 1, IF end < Len(s) THEN end ELSE Len(s))

\* JSON.parse: white space between tokens is insignificant
JSONParse(text) ==
    LET s == SelectSeq(text, LAMBDA c : c # T("ws")) IN
    IF Len(s) = 3 /\ s[1] = T("{") /\ s[2].tok = "members" /\ s[3] = T("}")
    THEN [ok |-> TRUE, value |-> Obj(s[2].obj)]
    ELSE IF s = <<T("{"), T("}")>>
    THEN [ok |-> TRUE, value |-> Obj(EmptyObject)]
    ELSE IF Len(s) = 1 /\ s[1].tok = "literal"
    THEN [ok |-> TRUE, value |-> s[1].val]
    ELSE [ok |-> FALSE]

(***************************************************************************)
(* callOllamaVision: the text taken out of the reply of /api/chat.         *)
(***************************************************************************)
RECURSIVE Join(_)
\* messages.map(m => m.content).join('\n')
Join(texts) ==
    IF texts = <<>> THEN <<>>
    ELSE IF Len(texts) = 1 THEN texts[1]
    ELSE texts[1] \o <<T("ws")>> \o Join(Tail(texts))

\* data?.message?.content ?? (Array.isArray(data?.messages) ? ... : ''), then trim() || ''
CallOllamaVision(data) ==
    Trim(CASE data.kind = "message" -> data.content
           [] data.kind = "messages" -> Join(data.contents)
           [] OTHER -> <<>>)

(***************************************************************************)
(* The steps of the POST /extract handler.                                 *)
(***************************************************************************)
NoFileMessage == "No PDF uploaded. Use form field \"file\"."
NoPagesMessage == "Could not render any pages from PDF."
InvalidJSONMessage == "Model did not return valid JSON."
ExtractionFailedMessage == "Extraction failed"
\* the messages of errors the handler does not construct itself
SyntaxErrorMessage == "SyntaxError: JSON.parse"
ZodErrorMessage == "ZodError"
FsErrorMessage == "fs error"

RECURSIVE BatchLoopShortSlice(_, _, _)
\* BatchLoop with pages.slice(i, i + BATCH_SIZE - 1)
BatchLoopShortSlice(pages, i, acc) ==
    IF i < Len(pages)
    THEN BatchLoopShortSlice(pages, i + BATCH_SIZE, Append(acc, Slice(pages, i, i + BATCH_SIZE - 1)))
    ELSE acc

RECURSIVE BatchLoop(_, _, _)
\* for (let i = 0; i < pages.length; i += BATCH_SIZE) batches.push(pages.slice(i, i + BATCH_SIZE))
BatchLoop(pages, i, acc) ==
    IF i < Len(pages)
    THEN BatchLoop(pages, i + BATCH_SIZE, Append(acc, Slice(pages, i, i + BATCH_SIZE)))
    ELSE acc

MakeBatches(pages) == BatchLoop(pages, 0, <<>>)

\* let merged = { documentType: null, ..., lineItems: [], meta: { pagesProcessed: 0 } }
InitialMerged ==
    [k \in TopKeys |->
        CASE k \in ScalarKeySet -> Null
          [] k = "lineItems" -> Arr(<<>>)
          [] k = "meta" -> Obj([pagesProcessed |-> Num(0)])]

\* JSON.parse(content), or on failure the text from the first { to the last }
ParseContent(text) ==
    LET direct == JSONParse(text)
        start == IndexOf(text, T("{"))
        end == LastIndexOf(text, T("}"))
        inner == JSONParse(Slice(text, start, end + 1))
    IN  IF direct.ok THEN direct
        ELSE IF start # -1 /\ end # -1 /\ end > start
        THEN IF inner.ok THEN inner ELSE [ok |-> FALSE, error |-> SyntaxErrorMessage]
        ELSE [ok |-> FALSE, error |-> InvalidJSONMessage]

\* MergeScalar where the last non-null value wins
MergeScalarLastWins(mine, theirs) ==
    IF ~LooseNull(theirs) THEN theirs ELSE mine

\* if (merged[key] == null && result[key] != null) merged[key] = result[key]
MergeScalar(mine, theirs) ==
    IF LooseNull(mine) /\ ~LooseNull(theirs) THEN theirs ELSE mine

\* MergeLineItems that puts the new items first
MergeLineItemsPrepend(mine, theirs) ==
    IF theirs.t = "array" THEN Arr(theirs.v \o mine.v) ELSE mine

\* if (Array.isArray(result.lineItems)) merged.lineItems = [...merged.lineItems, ...result.lineItems]
MergeLineItems(mine, theirs) ==
    IF theirs.t = "array" THEN Arr(mine.v \o theirs.v) ELSE mine

\* merged.meta.pagesProcessed += batch.length
AddPages(meta, batch) ==
    Obj([meta.v EXCEPT !.pagesProcessed = Num(meta.v.pagesProcessed.v + Len(batch))])

\* Fold that counts the pages the model reports, when it reports a number
FoldSelfReported(m, result, batch) ==
    [k \in TopKeys |->
        CASE k \in ScalarKeySet -> MergeScalar(m[k], result[k])
          [] k = "lineItems" -> MergeLineItems(m[k], result[k])
          [] k = "meta" ->
                IF result.meta.t = "object" /\ result.meta.v.pagesProcessed.t = "number"
                THEN Obj([pagesProcessed |-> Num(m.meta.v.pagesProcessed.v + result.meta.v.pagesProcessed.v)])
                ELSE AddPages(m[k], batch)]

\* the merge of one validated candidate into merged
Fold(m, result, batch) ==
    [k \in TopKeys |->
        CASE k \in ScalarKeySet -> MergeScalar(m[k], result[k])
          [] k = "lineItems" -> MergeLineItems(m[k], result[k])
          [] k = "meta" -> AddPages(m[k], batch)]

\* err?.message || 'Extraction failed'
ErrorMessage(msg) == IF msg = "" THEN ExtractionFailedMessage ELSE msg

\* res.status(500).json({ ok: false, error })
ErrorResponse(msg) == [status |-> 500, ok |-> FALSE, error |-> ErrorMessage(msg)]

\* res.json({ ok: true, pages: pages.length, data: final })
SuccessResponse(pages, final) ==
    [status |-> 200, ok |-> TRUE, pages |-> Len(pages), data |-> final]

(***************************************************************************)
(* The inputs of the environment.                                          *)
(***************************************************************************)
\* what the model may put in a scalar field: nothing, null, strings, a number
ScalarVals == {Undefined, Null, Str("Acme"), Str("Other"), Str(""), Num(42)}

Item(d) == Obj([description |-> d, quantity |-> Undefined, unitPrice |-> Undefined, amount |-> Undefined])

LineItemVals ==
    {Arr(<<>>), Arr(<<Item(Str("a"))>>), Arr(<<Item(Str("b")), Item(Str("c"))>>),
     Arr(<<Item(Null)>>), Null, Str("none")}

MetaVals ==
    {Obj([pagesProcessed |-> Num(0)]), Obj([pagesProcessed |-> Num(99)]),
     Obj([pagesProcessed |-> Undefined]), Obj([pagesProcessed |-> Str("2")]), Null}

Uniform(x) == [k \in TopKeys |-> IF k \in ScalarKeySet THEN x ELSE Undefined]

\* the objects the model may answer with
RawObjects ==
    {Uniform(x) : x \in ScalarVals}
    \cup {[EmptyObject EXCEPT ![k] = x] : k \in ScalarKeySet, x \in ScalarVals}
    \cup {[b EXCEPT !.lineItems = x] : b \in {EmptyObject, Uniform(Str("Acme"))}, x \in LineItemVals}
    \cup {[b EXCEPT !.meta = x] : b \in {EmptyObject, Uniform(Str("Acme"))}, x \in MetaVals}

ObjectText(o) == <<T("{"), Members(o), T("}")>>

\* the texts the model may answer with
Texts ==
    {ObjectText(o) : o \in RawObjects}
    \cup {<<T("txt")>> \o ObjectText(o) \o <<T("txt")>> : o \in {[EmptyObject EXCEPT !.total = Str("Acme")], Uniform(Str("Other"))}}
    \cup {<<T("ws")>> \o ObjectText(Uniform(Str("Acme"))) \o <<T("ws")>>}
    \cup {<<>>, <<T("txt")>>, <<T("{"), T("}")>>, <<Literal(Num(42))>>, <<Literal(Null)>>,
          <<T("{"), T("txt"), T("}")>>, <<T("}"), T("{")>>, <<T("txt"), T("{")>>,
          <<T("txt"), T("}")>>, <<T("txt"), T("{"), T("txt"), T("}"), T("txt")>>,
          ObjectText(Uniform(Str("Acme"))) \o ObjectText(Uniform(Str("Acme")))}

\* the bodies /api/chat may answer with
Replies ==
    {[kind |-> "message", content |-> c] : c \in Texts}
    \cup {[kind |-> "messages", contents |-> <<<<T("{")>>, <<Members(Uniform(Str("Acme"))), T("}")>>>>],
          [kind |-> "messages", contents |-> <<<<T("txt")>>, <<T("txt")>>>>],
          [kind |-> "none"]}

\* the messages of the errors axios may throw
TransportErrors == {"timeout of 300000ms exceeded", ""}

(***************************************************************************)
(* The state of one request.                                               *)
(***************************************************************************)
VARIABLES
    pc,           \* where the handler is suspended
    req,          \* req.file, and whether it has a path
    tmpDir,       \* the directory of pdfToBase64Pages: "none", "exists", "removed"
    upload,       \* the uploaded file on disk: "none", "exists", "removed"
    removeTried,  \* fs.remove(req.file.path) was called
    base64Pages,  \* the pages rendered so far
    batches,      \* the batches
    idx,          \* the number of batches folded, the index of the batch in the loop
    merged,       \* the merged record
    content,      \* the last text callOllamaVision returned
    result,       \* the last outcome of ExtractedDataSchema.partial().parse
    received,     \* the number of replies callOllamaVision returned
    calls,        \* the calls made to the model, in order
    folded,       \* the lineItems of the candidates folded, in order
    responses     \* the responses sent

vars == <<pc, req, tmpDir, upload, removeTried, base64Pages, batches, idx, merged,
          content, result, received, calls, folded, responses>>

NoResult == [ok |-> FALSE]

Init ==
    /\ pc = "handler"
    /\ req \in {[file |-> FALSE, path |-> FALSE], [file |-> TRUE, path |-> TRUE],
                [file |-> TRUE, path |-> FALSE]}
    /\ tmpDir = "none"
    /\ upload = IF req.path THEN "exists" ELSE "none"
    /\ removeTried = FALSE
    /\ base64Pages = <<>>
    /\ batches = <<>>
    /\ idx = 0
    /\ merged = InitialMerged
    /\ content = <<>>
    /\ result = NoResult
    /\ received = 0
    /\ calls = <<>>
    /\ folded = <<>>
    /\ responses = <<>>

\* the catch block: one 500 response, then the finally block
Catch(msg) ==
    /\ responses' = Append(responses, ErrorResponse(msg))
    /\ pc' = "finally"

\* callOllamaVision for the batch at index i (0-based)
CallFor(bs, i) == [batch |-> i + 1, of |-> Len(bs), images |-> bs[i + 1]]

\* the loop reaches the batch at index i (0-based), or ends: final validation, response
Continue(bs, m, i) ==
    LET final == ZodParse(ExtractedDataSchema, Obj(m)) IN
    IF i < Len(bs)
    THEN /\ calls' = Append(calls, CallFor(bs, i))
         /\ pc' = "awaitModel"
         /\ UNCHANGED responses
    ELSE /\ calls' = calls
         /\ IF final.ok
            THEN /\ responses' = Append(responses, SuccessResponse(base64Pages, final.value))
                 /\ pc' = "finally"
            ELSE Catch(ZodErrorMessage)

\* Abort that calls the model again for the same batch instead of giving up
AbortRetries(msg) ==
    /\ calls' = Append(calls, calls[Len(calls)])
    /\ UNCHANGED <<pc, responses, idx, merged, folded>>

\* a throw inside the loop body: the loop is left for the catch block
Abort(msg) ==
    /\ Catch(msg)
    /\ UNCHANGED <<idx, merged, calls, folded>>

\* if (!pdfFile) return res.status(400).json(...)
NoFile ==
    /\ pc = "handler"
    /\ ~req.file
    /\ responses' = Append(responses, [status |-> 400, error |-> NoFileMessage])
    /\ pc' = "done"
    /\ UNCHANGED <<req, tmpDir, upload, removeTried, base64Pages, batches, idx, merged,
                   content, result, received, calls, folded>>

\* fs.mkdtemp rejects
MkdtempFails ==
    /\ pc = "handler"
    /\ req.file
    /\ Catch(FsErrorMessage)
    /\ UNCHANGED <<req, tmpDir, upload, removeTried, base64Pages, batches, idx, merged,
                   content, result, received, calls, folded>>

\* fs.mkdtemp makes the directory, pdfToPicFromPath throws
ConverterSetupThrows ==
    /\ pc = "handler"
    /\ req.file
    /\ tmpDir' = "exists"
    /\ Catch("pdf2pic error")
    /\ UNCHANGED <<req, upload, removeTried, base64Pages, batches, idx, merged,
                   content, result, received, calls, folded>>

\* fs.mkdtemp makes the directory, pdfToPicFromPath returns the converter
ConverterReady ==
    /\ pc = "handler"
    /\ req.file
    /\ tmpDir' = "exists"
    /\ pc' = "converting"
    /\ UNCHANGED <<req, upload, removeTried, base64Pages, batches, idx, merged,
                   content, result, received, calls, folded, responses>>

\* converter(page, true) gives a page: its payload is its number
ConvertPage ==
    /\ pc = "converting"
    /\ Len(base64Pages) < MaxPages
    /\ base64Pages' = Append(base64Pages, Len(base64Pages) + 1)
    /\ UNCHANGED <<pc, req, tmpDir, upload, removeTried, batches, idx, merged,
                   content, result, received, calls, folded, responses>>

\* converter(page, true) throws or gives no base64: break
ConvertEnds ==
    /\ pc = "converting"
    /\ pc' = "removeTmp"
    /\ UNCHANGED <<req, tmpDir, upload, removeTried, base64Pages, batches, idx, merged,
                   content, result, received, calls, folded, responses>>

\* fs.remove(tmpDir) rejects
RemoveTmpFails ==
    /\ pc = "removeTmp"
    /\ Catch(FsErrorMessage)
    /\ UNCHANGED <<req, tmpDir, upload, removeTried, base64Pages, batches, idx, merged,
                   content, result, received, calls, folded>>

\* NoPages without the check of pages.length: an empty loop, then the final validation
NoPagesUnchecked ==
    /\ pc = "removeTmp"
    /\ tmpDir' = "removed"
    /\ Len(base64Pages) = 0
    /\ batches' = <<>>
    /\ merged' = InitialMerged
    /\ idx' = 0
    /\ Continue(batches', merged', 0)
    /\ UNCHANGED <<req, upload, removeTried, base64Pages, content, result, received, folded>>

\* fs.remove(tmpDir) succeeds and the handler has its pages: none
NoPages ==
    /\ pc = "removeTmp"
    /\ tmpDir' = "removed"
    /\ Len(base64Pages) = 0
    /\ Catch(NoPagesMessage)
    /\ UNCHANGED <<req, upload, removeTried, base64Pages, batches, idx, merged,
                   content, result, received, calls, folded>>

\* fs.remove(tmpDir) succeeds and the handler has its pages: batches, merged, first call
StartBatches ==
    /\ pc = "removeTmp"
    /\ tmpDir' = "removed"
    /\ Len(base64Pages) # 0
    /\ batches' = MakeBatches(base64Pages)
    /\ merged' = InitialMerged
    /\ idx' = 0
    /\ Continue(batches', merged', 0)
    /\ UNCHANGED <<req, upload, removeTried, base64Pages, content, result, received, folded>>

\* axios.post rejects (timeout, transport)
ModelCallFails ==
    /\ pc = "awaitModel"
    /\ \E msg \in TransportErrors : Abort(msg)
    /\ UNCHANGED <<req, tmpDir, upload, removeTried, base64Pages, batches, content, result,
                   received>>

\* axios.post resolves: the rest of the loop body, and what follows it
ModelReplies ==
    /\ pc = "awaitModel"
    /\ received' = received + 1
    /\ \E data \in Replies :
        LET text == CallOllamaVision(data)
            parsed == ParseContent(text)
            r == ZodParse(Partial(ExtractedDataSchema), parsed.value)
            batch == batches[idx + 1]
        IN  /\ content' = text
            /\ IF ~parsed.ok
               THEN /\ Abort(parsed.error)
                    /\ result' = NoResult
               ELSE IF ~r.ok
               THEN /\ Abort(ZodErrorMessage)
                    /\ result' = r
               ELSE /\ result' = r
                    /\ merged' = Fold(merged, r.value, batch)
                    /\ idx' = idx + 1
                    /\ folded' = Append(folded, IF r.value.lineItems.t = "array"
                                                THEN r.value.lineItems.v ELSE <<>>)
                    /\ Continue(batches, merged', idx')
    /\ UNCHANGED <<req, tmpDir, upload, removeTried, base64Pages, batches>>

\* finally: req.file.path is not set
FinallyNoPath ==
    /\ pc = "finally"
    /\ ~req.path
    /\ pc' = "done"
    /\ UNCHANGED <<req, tmpDir, upload, removeTried, base64Pages, batches, idx, merged,
                   content, result, received, calls, folded, responses>>

\* finally: fs.remove(req.file.path) succeeds
FinallyRemoves ==
    /\ pc = "finally"
    /\ req.path
    /\ removeTried' = TRUE
    /\ upload' = "removed"
    /\ pc' = "done"
    /\ UNCHANGED <<req, tmpDir, base64Pages, batches, idx, merged,
                   content, result, received, calls, folded, responses>>

\* finally: fs.remove(req.file.path) rejects, the catch {} swallows it
FinallyRemoveFails ==
    /\ pc = "finally"
    /\ req.path
    /\ removeTried' = TRUE
    /\ pc' = "done"
    /\ UNCHANGED <<req, tmpDir, upload, base64Pages, batches, idx, merged,
                   content, result, received, calls, folded, responses>>

Next ==
    \/ NoFile
    \/ MkdtempFails
    \/ ConverterSetupThrows
    \/ ConverterReady
    \/ ConvertPage
    \/ ConvertEnds
    \/ RemoveTmpFails
    \/ NoPages
    \/ StartBatches
    \/ ModelCallFails
    \/ ModelReplies
    \/ FinallyNoPath
    \/ FinallyRemoves
    \/ FinallyRemoveFails

Spec == Init /\ [][Next]_vars

(***************************************************************************)
(* Properties.                                                             *)
(***************************************************************************)
RECURSIVE Flatten(_)
\* the concatenation of a sequence of sequences
Flatten(ss) == IF ss = <<>> THEN <<>> ELSE Head(ss) \o Flatten(Tail(ss))

RECURSIVE SumSizes(_, _)
\* the sum of the sizes of the first k batches
SumSizes(bs, k) == IF k = 0 THEN 0 ELSE SumSizes(bs, k - 1) + Len(bs[k])

\* a response was sent and it is the success response
Succeeded == responses # <<>> /\ responses[1].status = 200

\* a response was sent and it is the 500 response
Failed == responses # <<>> /\ responses[1].status = 500

\* C1: once merged holds a non-null value for a scalar field, no step changes it
\* (first non-null wins, also against a later conflicting non-null value).
FirstNonNullWins ==
    [][\A k \in ScalarKeySet : ~LooseNull(merged[k]) => merged'[k] = merged[k]]_vars

\* C1 witness: batch 2 offered vendor "Other" after "Acme" was merged, and "Acme" stays
ConflictKeepsFirst ==
    /\ idx >= 2
    /\ result.ok
    /\ result.value.vendor = Str("Other")
    /\ merged.vendor = Str("Acme")

\* C2: for N >= 1 pages there are ceil(N / BATCH_SIZE) batches, each of 1..BATCH_SIZE
\* pages, and their concatenation is the page sequence: every page once, in order.
BatchPlan ==
    calls # <<>> =>
        LET n == Len(base64Pages) IN
        /\ n >= 1
        /\ Len(batches) = (n + BATCH_SIZE - 1) \div BATCH_SIZE
        /\ \A i \in 1..Len(batches) : Len(batches[i]) >= 1 /\ Len(batches[i]) <= BATCH_SIZE
        /\ Flatten(batches) = base64Pages
        /\ base64Pages = [i \in 1..n |-> i]
        /\ (n = 2 => Len(batches) = 1)
        /\ (n = 10 => Len(batches) = 2 /\ Len(batches[1]) = 6 /\ Len(batches[2]) = 4)

\* C2 witness: ten pages planned as batches of six and four
TenPagesPlanned ==
    /\ calls # <<>>
    /\ Len(base64Pages) = 10
    /\ Len(batches) = 2
    /\ Len(batches[1]) = 6
    /\ Len(batches[2]) = 4

\* C3: after k batches are folded merged.meta.pagesProcessed is the sum of the sizes of
\* batches 1..k, whatever the model reported; a success response carries the page count.
PagesProcessedIsBatchSum ==
    /\ calls # <<>> => merged.meta.v.pagesProcessed = Num(SumSizes(batches, idx))
    /\ Succeeded =>
        /\ responses[1].pages = Len(base64Pages)
        /\ responses[1].data.meta.v.pagesProcessed = Num(responses[1].pages)

\* C3 witness: a success after two batches whose last candidate reported 99 pages
SelfReportIgnored ==
    /\ Succeeded
    /\ idx = 2
    /\ result.ok
    /\ result.value.meta = Obj([pagesProcessed |-> Num(99)])
    /\ responses[1].data.meta.v.pagesProcessed.v < 99

\* C4: merged.lineItems is the concatenation, in batch order, of the lineItems of the
\* candidates folded (nothing for a candidate without an array), also in the response.
LineItemsConcatenate ==
    /\ Len(folded) = idx
    /\ merged.lineItems = Arr(Flatten(folded))
    /\ Succeeded => responses[1].data.lineItems = Arr(Flatten(folded))

\* C4 witness: one item from batch 1 and two from batch 2 give the three in that order
OneThenTwoItems ==
    /\ idx = 2
    /\ idx = Len(batches)
    /\ folded = <<<<Item(Str("a"))>>, <<Item(Str("b")), Item(Str("c"))>>>>
    /\ merged.lineItems.v = <<Item(Str("a")), Item(Str("b")), Item(Str("c"))>>

\* C5: when pdfToBase64Pages returns no pages the request gets the one 500 response with
\* the "Could not render any pages" message, and the model is never called.
ZeroPagesFail ==
    (tmpDir = "removed" /\ base64Pages = <<>>) =>
        /\ calls = <<>>
        /\ received = 0
        /\ responses = <<[status |-> 500, ok |-> FALSE, error |-> NoPagesMessage]>>

\* C5 witness: a finished request whose renderer gave no page
ZeroPagesDone ==
    /\ pc = "done"
    /\ tmpDir = "removed"
    /\ base64Pages = <<>>
    /\ Failed

\* the state part of C6
SequentialCalls ==
    /\ \A i \in 1..Len(calls) : calls[i].batch = i /\ calls[i].images = batches[i]
    /\ Len(calls) <= idx + 1
    /\ received <= Len(calls)
    /\ pc = "awaitModel" => Len(calls) = idx + 1 /\ received = idx /\ responses = <<>>
    /\ Len(responses) <= 1
    /\ Succeeded =>
        /\ Len(calls) = Len(batches)
        /\ received = Len(batches)
        /\ idx = Len(batches)
        /\ (Len(base64Pages) = 2 => Len(calls) = 1)
        /\ (Len(base64Pages) = 10 => Len(calls) = 2)
    /\ Failed => DOMAIN responses[1] = {"status", "ok", "error"}

\* C6: the calls of a request are made one at a time, in batch order, each batch at most
\* once and only after the batch before it is folded; a success has one call per batch;
\* once a response is sent (a failure included) no call and no response follows.
SequentialNoRetry ==
    /\ []SequentialCalls
    /\ [][responses # <<>> => calls' = calls /\ responses' = responses]_vars

\* C6 witness: ten pages, two calls, success
TwoCallsSucceeded ==
    /\ pc = "done"
    /\ Succeeded
    /\ Len(base64Pages) = 10
    /\ Len(calls) = 2

\* C7: a model output whose scalar field is null (the others absent) passes the per-batch
\* validation and is folded, the request is not aborted; stated for each scalar field.
NullScalarAccepted ==
    \A k \in ScalarKeySet :
        (received >= 1 /\ content = ObjectText([EmptyObject EXCEPT ![k] = Null])) =>
            /\ result.ok
            /\ idx = received
            /\ ~Failed

\* the text from the first { to the last } is missing or is not valid JSON
BraceTextInvalid(text) ==
    LET start == IndexOf(text, T("{"))
        end == LastIndexOf(text, T("}"))
    IN  \/ start = -1
        \/ end = -1
        \/ end <= start
        \/ ~JSONParse(Slice(text, start, end + 1)).ok

\* C8: a response text that is not valid JSON, and whose brace text is missing or not
\* valid JSON, ends the request with the "Model did not return valid JSON." 500 response.
InvalidJSONReported ==
    (received >= 1 /\ ~JSONParse(content).ok /\ BraceTextInvalid(content)) =>
        responses = <<[status |-> 500, ok |-> FALSE, error |-> InvalidJSONMessage]>>

\* C9: when a request with an uploaded file has finished, the directory pdfToBase64Pages
\* made is gone and the removal of the uploaded file was attempted.
CleanupOnEveryExit ==
    (pc = "done" /\ req.file /\ req.path) =>
        /\ tmpDir # "exists"
        /\ removeTried

\* C10: when every batch passed the per-batch validation and was folded, the final
\* validation passes and the response is the success response.
FinalFollowsFromBatches ==
    (pc \in {"finally", "done"} /\ Len(batches) >= 1 /\ idx = Len(batches)) => Succeeded

====
